---- MODULE Spec2Model ----
(***************************************************************************)
(* City_Builder: the grid's entity registry (game/grid.ts), the A*         *)
(* pathfinder (game/pathfinder.ts), the incremental path network           *)
(* (game/pathNetwork.ts, incremental version), the economy                 *)
(* (game/resources.ts, game/buildings.ts, game/simulation.ts) and the      *)
(* moveable entities (game/entities/MoveableEntity.ts).                    *)
(*                                                                         *)
(* A cell is the pair <<col, row>>; the source's cellKey string            *)
(* "col,row" is modelled by that pair (both are injective on integers).    *)
(***************************************************************************)
EXTENDS Integers, Sequences, FiniteSets, TLC

VARIABLES
    nextId,       \* entities/id.ts: the shared id counter
    entitiesById, \* grid.ts: the registry, a sequence in Map insertion order
    cellOccupant, \* grid.ts: occupied cell -> id of the entity occupying it
    segments,     \* pathNetwork.ts: the sequence of live segments
    pathCellSet,  \* pathNetwork.ts: the cells of the path network
    pending,      \* ids removed from the grid whose removePathsForEntity is still due
    unserved,     \* ids the driver placed whose addPathsForEntity is still due
    lastOp,       \* the last call: [op, arg, ret]
    steps,        \* calls made so far in the path-network specification
    economy,      \* the driver's EconomyState object
    moveables,    \* grid.ts: the sequence of registered moveable entities
    structure,    \* a WallEntity or BuildingEntity taking damage: [kind, health, maxHealth]
    pfPhase,      \* "input" before the findPath call, "done" after it
    pfBlocked,    \* cells for which the isBlocked callback answers true
    pfStart,      \* <<startCol, startRow>>
    pfEnd,        \* <<endCol, endRow>>
    pfPath,       \* the sequence findPath returned
    pfIters       \* iterations of findPath's while loop

pfVars == <<pfPhase, pfBlocked, pfStart, pfEnd, pfPath, pfIters>>

gridVars == <<nextId, entitiesById, cellOccupant>>

netVars == <<segments, pathCellSet, pending, unserved>>

vars == <<steps, nextId, entitiesById, cellOccupant, segments, pathCellSet, pending, unserved,
          economy, moveables, structure, lastOp,
          pfPhase, pfBlocked, pfStart, pfEnd, pfPath, pfIters>>

(***************************************************************************)
(* Bounds                                                                  *)
(***************************************************************************)
\* the grid of game/grid.ts, scaled down from 128 x 128
GRID_COLS == 5
GRID_ROWS == 5
\* NEARBY_RADIUS of game/pathNetwork.ts, scaled down from 5 with the grid
NEARBY_RADIUS == 1
\* ids handed out in the grid specification
MaxGridId == 2
\* ids handed out in the path-network specification
MaxNetId == 3
\* calls made in one run of the path-network specification
MaxSteps == 6
\* grid handed to findPath in the pathfinder specification
PathCols == 3
PathRows == 2
\* largest number of blocked cells in the pathfinder specification
MaxBlocked == 3
\* calls made in one run of the economy specification
MaxEconSteps == 5
\* largest multiple of 250 handed to an economy operation
MaxUnits == 2
\* ids handed out in the rates specification
MaxRatesId == 3
\* clicks and frames in one run of the driver specification
MaxDriverSteps == 4
\* largest maxHealth of an entity in the health specification
MaxHealth == 4
\* ids handed out in the door specification
MaxDoorId == 5
\* calls made in one run of the navigation specification
MaxNavSteps == 6
\* ids handed out in the navigation specification
MaxNavId == 2
\* ids handed out in the street specification
MaxStreetId == 5
\* ids handed out in the doorway specification
MaxDoorwayId == 3
\* calls made and ids handed out in the route specification
MaxRouteSteps == 3
MaxRouteId == 2

Null == <<>>

\* stands for `undefined` where an id is expected; ids start at 1
NoId == 0

Abs(x) == IF x < 0 THEN 0 - x ELSE x

(***************************************************************************)
(* game/pathfinder.ts                                                      *)
(***************************************************************************)
DIRS == << <<0, -1>>, <<1, 0>>, <<0, 1>>, <<-1, 0>> >>

cellKey(col, row) == <<col, row>>

manhattan(c1, r1, c2, r2) == Abs(c1 - c2) + Abs(r1 - r2)

\* the scan with its comparison turned round: the highest f-score wins
RECURSIVE BestIdxHighest(_, _, _, _)
BestIdxHighest(open, nodeMap, i, bestIdx) ==
    IF i > Len(open) THEN bestIdx
    ELSE IF nodeMap[open[i]].f > nodeMap[open[bestIdx]].f
         THEN BestIdxHighest(open, nodeMap, i + 1, i)
         ELSE BestIdxHighest(open, nodeMap, i + 1, bestIdx)

\* the loop of lines 78-81: the first index of the lowest f-score
RECURSIVE BestIdx(_, _, _, _)
BestIdx(open, nodeMap, i, bestIdx) ==
    IF i > Len(open) THEN bestIdx
    ELSE IF nodeMap[open[i]].f < nodeMap[open[bestIdx]].f
         THEN BestIdx(open, nodeMap, i + 1, i)
         ELSE BestIdx(open, nodeMap, i + 1, bestIdx)

RemoveAt(s, i) == SubSeq(s, 1, i - 1) \o SubSeq(s, i + 1, Len(s))

Reverse(s) == [i \in 1..Len(s) |-> s[Len(s) + 1 - i]]

\* walks the parent links from the end node; the cells come goal first
RECURSIVE WalkParents(_, _)
WalkParents(nodeMap, key) ==
    IF key = Null \/ key \notin DOMAIN nodeMap THEN <<>>
    ELSE <<key>> \o WalkParents(nodeMap, nodeMap[key].parentKey)

\* reconstruct without its final reverse
reconstructGoalFirst(nodeMap, endKey) == WalkParents(nodeMap, endKey)

reconstruct(nodeMap, endKey) == Reverse(WalkParents(nodeMap, endKey))

\* one pass of the body of `for (const dir of DIRS)` (lines 92-121);
\* st = [open, closed, nodeMap], q = the arguments of findPath
ExpandDir(st, q, currentKey, d) ==
    LET nc == currentKey[1] + DIRS[d][1]
        nr == currentKey[2] + DIRS[d][2]
        nKey == cellKey(nc, nr)
        tentativeG == st.nodeMap[currentKey].g + 1
        node == [g |-> tentativeG,
                 f |-> tentativeG + manhattan(nc, nr, q.endCol, q.endRow),
                 parentKey |-> currentKey]
    IN  IF nc < 0 \/ nc >= q.gridCols \/ nr < 0 \/ nr >= q.gridRows THEN st
        ELSE IF nKey \in st.closed THEN st
        ELSE IF nKey \in q.blocked THEN st
        ELSE IF nKey \in DOMAIN st.nodeMap
             THEN IF tentativeG >= st.nodeMap[nKey].g THEN st
                  ELSE [st EXCEPT !.nodeMap = [@ EXCEPT ![nKey] = node]]
             ELSE [st EXCEPT !.open = Append(@, nKey),
                             !.nodeMap = (nKey :> node) @@ @]

RECURSIVE ExpandDirs(_, _, _, _)
ExpandDirs(st, q, currentKey, d) ==
    IF d > Len(DIRS) THEN st
    ELSE ExpandDirs(ExpandDir(st, q, currentKey, d), q, currentKey, d + 1)

\* the while loop of lines 76-122; yields [path, iters]
RECURSIVE SearchLoop(_, _, _)
SearchLoop(st, q, iters) ==
    IF Len(st.open) = 0 THEN [path |-> <<>>, iters |-> iters]
    ELSE
      LET bestIdx == BestIdx(st.open, st.nodeMap, 2, 1)
          currentKey == st.open[bestIdx]
      IN  IF currentKey = cellKey(q.endCol, q.endRow)
          THEN [path |-> reconstruct(st.nodeMap, currentKey), iters |-> iters + 1]
          ELSE SearchLoop(
                 ExpandDirs([st EXCEPT !.open = RemoveAt(@, bestIdx),
                                       !.closed = @ \cup {currentKey}],
                            q, currentKey, 1),
                 q, iters + 1)

\* findPath, with the number of loop iterations it took
findPathRun(startCol, startRow, endCol, endRow, gridCols, gridRows, blocked) ==
    LET startKey == cellKey(startCol, startRow)
        endKey == cellKey(endCol, endRow)
        q == [endCol |-> endCol, endRow |-> endRow,
              gridCols |-> gridCols, gridRows |-> gridRows, blocked |-> blocked]
        startNode == [g |-> 0,
                      f |-> manhattan(startCol, startRow, endCol, endRow),
                      parentKey |-> Null]
    IN  IF startKey = endKey THEN [path |-> <<startKey>>, iters |-> 0]
        ELSE SearchLoop([open |-> <<startKey>>, closed |-> {},
                         nodeMap |-> (startKey :> startNode)], q, 0)

\* findPath that never asks the isBlocked callback
findPathIgnoringBlocked(startCol, startRow, endCol, endRow, gridCols, gridRows, blocked) ==
    findPathRun(startCol, startRow, endCol, endRow, gridCols, gridRows, {}).path

findPath(startCol, startRow, endCol, endRow, gridCols, gridRows, blocked) ==
    findPathRun(startCol, startRow, endCol, endRow, gridCols, gridRows, blocked).path

(***************************************************************************)
(* game/grid.ts: entity tracking                                           *)
(***************************************************************************)
\* an entity is [id, col, row, width, height, kind]; kind is its class
Entity(id, kind, col, row, width, height) ==
    [id |-> id, kind |-> kind, col |-> col, row |-> row,
     width |-> width, height |-> height]

\* the cells the two nested footprint loops visit
FootprintCells(entity) ==
    {cellKey(entity.col + dc, entity.row + dr) :
        dc \in 0..(entity.width - 1), dr \in 0..(entity.height - 1)}

\* Map.set on the registry: a known key keeps its place, a new key goes last
MapSet(ents, entity) ==
    IF \E i \in 1..Len(ents) : ents[i].id = entity.id
    THEN [i \in 1..Len(ents) |-> IF ents[i].id = entity.id THEN entity ELSE ents[i]]
    ELSE Append(ents, entity)

\* Map.delete on the registry
MapDelete(ents, id) == SelectSeq(ents, LAMBDA e : e.id # id)

getEntityById(ents, id) ==
    IF \E i \in 1..Len(ents) : ents[i].id = id
    THEN ents[CHOOSE i \in 1..Len(ents) : ents[i].id = id]
    ELSE Null

\* the id of the occupant, NoId for a free cell
getEntityAt(occ, col, row) ==
    IF cellKey(col, row) \in DOMAIN occ THEN occ[cellKey(col, row)] ELSE NoId

\* placeEntity whose collision check looks at the top-left cell only
placeEntityOriginCheck(ents, occ, entity) ==
    IF \/ entity.col < 0 \/ entity.col + entity.width > GRID_COLS
       \/ entity.row < 0 \/ entity.row + entity.height > GRID_ROWS
    THEN [ok |-> FALSE, ents |-> ents, occ |-> occ]
    ELSE IF cellKey(entity.col, entity.row) \in DOMAIN occ
    THEN [ok |-> FALSE, ents |-> ents, occ |-> occ]
    ELSE [ok |-> TRUE,
          ents |-> MapSet(ents, entity),
          occ |-> [c \in DOMAIN occ \cup FootprintCells(entity) |->
                     IF c \in FootprintCells(entity) THEN entity.id ELSE occ[c]]]

\* placeEntity: [ok, ents, occ]
placeEntity(ents, occ, entity) ==
    IF \/ entity.col < 0 \/ entity.col + entity.width > GRID_COLS
       \/ entity.row < 0 \/ entity.row + entity.height > GRID_ROWS
    THEN [ok |-> FALSE, ents |-> ents, occ |-> occ]
    ELSE IF \E dc \in 0..(entity.width - 1), dr \in 0..(entity.height - 1) :
               cellKey(entity.col + dc, entity.row + dr) \in DOMAIN occ
    THEN [ok |-> FALSE, ents |-> ents, occ |-> occ]
    ELSE [ok |-> TRUE,
          ents |-> MapSet(ents, entity),
          occ |-> [c \in DOMAIN occ \cup FootprintCells(entity) |->
                     IF c \in FootprintCells(entity) THEN entity.id ELSE occ[c]]]

\* removeEntity that frees the top-left cell only
removeEntityOriginOnly(ents, occ, id) ==
    LET entity == getEntityById(ents, id)
    IN  IF entity = Null
        THEN [ret |-> Null, ents |-> ents, occ |-> occ]
        ELSE [ret |-> entity,
              ents |-> MapDelete(ents, id),
              occ |-> [c \in DOMAIN occ \ {cellKey(entity.col, entity.row)} |-> occ[c]]]

\* removeEntity: [ret, ents, occ]; ret is the removed entity or Null
removeEntity(ents, occ, id) ==
    LET entity == getEntityById(ents, id)
    IN  IF entity = Null
        THEN [ret |-> Null, ents |-> ents, occ |-> occ]
        ELSE [ret |-> entity,
              ents |-> MapDelete(ents, id),
              occ |-> [c \in DOMAIN occ \ FootprintCells(entity) |-> occ[c]]]

(***************************************************************************)
(* game/resources.ts: the economy                                          *)
(*                                                                         *)
(* An EconomyState is [resources, capacity, production, consumption], each *)
(* a ResourceMap: a function on RESOURCE_TYPES.  A Partial<ResourceMap> is *)
(* a function on some of the types.  An operation that mutates the state   *)
(* it is handed is modelled by the state it leaves.                        *)
(***************************************************************************)
RESOURCE_TYPES == {"gold", "wood", "stone", "food"}

createResourceMap(defaultValue) == [t \in RESOURCE_TYPES |-> defaultValue]

DEFAULT_CAPACITY == [gold |-> 500, wood |-> 300, stone |-> 300, food |-> 300]

DEFAULT_STARTING == [gold |-> 100, wood |-> 50, stone |-> 50, food |-> 50]

createEconomyState ==
    [resources |-> DEFAULT_STARTING,
     capacity |-> DEFAULT_CAPACITY,
     production |-> createResourceMap(0),
     consumption |-> createResourceMap(0)]

\* amounts[type] ?? 0
OrZero(amounts, type) == IF type \in DOMAIN amounts THEN amounts[type] ELSE 0

Min(a, b) == IF a < b THEN a ELSE b

Max(a, b) == IF a > b THEN a ELSE b

\* canAfford that takes an amount equal to the cost for too little
canAffordStrict(state, cost) ==
    \A type \in RESOURCE_TYPES : ~(state.resources[type] <= cost[type])

canAfford(state, cost) ==
    \A type \in RESOURCE_TYPES : ~(state.resources[type] < cost[type])

\* the returned boolean and the state left
spendResources(state, cost) ==
    IF ~canAfford(state, cost) THEN [ret |-> FALSE, state |-> state]
    ELSE [ret |-> TRUE,
          state |-> [state EXCEPT !.resources =
                        [type \in RESOURCE_TYPES |-> @[type] - cost[type]]]]

addResources(state, amounts) ==
    [state EXCEPT !.resources =
        [type \in RESOURCE_TYPES |->
            Min(@[type] + OrZero(amounts, type), state.capacity[type])]]

addCapacity(state, amounts) ==
    [state EXCEPT !.capacity =
        [type \in RESOURCE_TYPES |-> @[type] + OrZero(amounts, type)]]

\* removeCapacity without the line that clamps the resources
removeCapacityKeepingResources(state, amounts) ==
    [state EXCEPT !.capacity =
        [type \in RESOURCE_TYPES |-> Max(0, @[type] - OrZero(amounts, type))]]

removeCapacity(state, amounts) ==
    LET capacity == [type \in RESOURCE_TYPES |->
                        Max(0, state.capacity[type] - OrZero(amounts, type))]
    IN  [state EXCEPT !.capacity = capacity,
                      !.resources = [type \in RESOURCE_TYPES |->
                                        Min(@[type], capacity[type])]]

setProductionRate(state, type, rate) == [state EXCEPT !.production[type] = rate]

setConsumptionRate(state, type, rate) == [state EXCEPT !.consumption[type] = rate]

\* tickEconomy that reports production - consumption, not the realized change
tickEconomyNominal(state) ==
    LET after == [type \in RESOURCE_TYPES |->
                     Max(0, Min(state.resources[type]
                                  + (state.production[type] - state.consumption[type]),
                                state.capacity[type]))]
    IN  [net |-> [type \in RESOURCE_TYPES |->
                     state.production[type] - state.consumption[type]],
         state |-> [state EXCEPT !.resources = after]]

\* the returned net change and the state left
tickEconomy(state) ==
    LET after == [type \in RESOURCE_TYPES |->
                     Max(0, Min(state.resources[type]
                                  + (state.production[type] - state.consumption[type]),
                                state.capacity[type]))]
    IN  [net |-> [type \in RESOURCE_TYPES |-> after[type] - state.resources[type]],
         state |-> [state EXCEPT !.resources = after]]

(***************************************************************************)
(* game/buildings.ts and game/simulation.ts                                *)
(*                                                                         *)
(* An entity's kind is its class: "wall" a WallEntity, "house" a           *)
(* HouseEntity, "placeholder" a PlaceholderEntity; any other kind is a     *)
(* BuildingEntity whose buildingType is that kind.                         *)
(***************************************************************************)
BuildingTypes ==
    {"house", "town_hall", "lumber_mill", "quarry", "farm", "storage", "market", "wall"}

\* the production, consumption and storageBonus of each catalogue entry
BUILDING_DEFS ==
    [type \in BuildingTypes |->
        CASE type = "house" ->
               [production |-> [gold |-> 1], consumption |-> [food |-> 1],
                storageBonus |-> <<>>]
          [] type = "town_hall" ->
               [production |-> [gold |-> 5], consumption |-> <<>>,
                storageBonus |-> [gold |-> 200]]
          [] type = "lumber_mill" ->
               [production |-> [wood |-> 3], consumption |-> [food |-> 1],
                storageBonus |-> <<>>]
          [] type = "quarry" ->
               [production |-> [stone |-> 3], consumption |-> [food |-> 1],
                storageBonus |-> <<>>]
          [] type = "farm" ->
               [production |-> [food |-> 4], consumption |-> <<>>,
                storageBonus |-> [food |-> 50]]
          [] type = "storage" ->
               [production |-> <<>>, consumption |-> <<>>,
                storageBonus |-> [gold |-> 200, wood |-> 150, stone |-> 150, food |-> 150]]
          [] type = "market" ->
               [production |-> [gold |-> 3], consumption |-> [food |-> 1],
                storageBonus |-> [gold |-> 100]]
          [] type = "wall" ->
               [production |-> <<>>, consumption |-> <<>>, storageBonus |-> <<>>]]

\* the cost of each catalogue entry
BuildingCost ==
    [type \in BuildingTypes |->
        CASE type = "house" -> [createResourceMap(0) EXCEPT !["wood"] = 30, !["stone"] = 10]
          [] type = "town_hall" ->
               [createResourceMap(0) EXCEPT !["wood"] = 100, !["stone"] = 80, !["gold"] = 50]
          [] type = "lumber_mill" ->
               [createResourceMap(0) EXCEPT !["wood"] = 20, !["stone"] = 10, !["gold"] = 15]
          [] type = "quarry" -> [createResourceMap(0) EXCEPT !["wood"] = 25, !["gold"] = 20]
          [] type = "farm" -> [createResourceMap(0) EXCEPT !["wood"] = 15, !["gold"] = 10]
          [] type = "storage" ->
               [createResourceMap(0) EXCEPT !["wood"] = 40, !["stone"] = 30, !["gold"] = 20]
          [] type = "market" ->
               [createResourceMap(0) EXCEPT !["wood"] = 35, !["stone"] = 25, !["gold"] = 30]
          [] type = "wall" -> [createResourceMap(0) EXCEPT !["stone"] = 5, !["wood"] = 2]]

\* the footprint of each catalogue entry (width = height)
BuildingSize == [type \in BuildingTypes |-> IF type = "wall" THEN 1 ELSE 4]

\* the value undefined where a building type is expected
Undefined == "undefined"

\* the building type read off an entity's properties: a
\* BuildingEntity has buildingType; HouseEntity and WallEntity both have
\* texture, which is tested before WallEntity's defence
entityBuildingType(entity) ==
    IF entity.kind \notin {"house", "wall", "placeholder"} THEN entity.kind
    ELSE IF entity.kind \in {"house", "wall"} THEN "house"
    ELSE Undefined

\* lines 257-273: the loop over the placed entities
RECURSIVE AccumulateRates(_, _, _)
AccumulateRates(ents, acc, i) ==
    IF i > Len(ents) THEN acc
    ELSE LET bt == entityBuildingType(ents[i])
         IN  IF bt = Undefined \/ bt \notin DOMAIN BUILDING_DEFS
             THEN AccumulateRates(ents, acc, i + 1)
             ELSE LET def == BUILDING_DEFS[bt]
                  IN  AccumulateRates(ents,
                        [state |-> addCapacity(acc.state, def.storageBonus),
                         production |-> [type \in RESOURCE_TYPES |->
                             acc.production[type] + OrZero(def.production, type)],
                         consumption |-> [type \in RESOURCE_TYPES |->
                             acc.consumption[type] + OrZero(def.consumption, type)]],
                        i + 1)

\* recalculateRates without the reset of the capacity to its base values
recalculateRatesIncremental(ents, state) ==
    LET acc == AccumulateRates(ents, [state |-> state,
                                      production |-> createResourceMap(0),
                                      consumption |-> createResourceMap(0)], 1)
    IN  [acc.state EXCEPT !.production = acc.production,
                          !.consumption = acc.consumption]

recalculateRates(ents, state) ==
    LET baseCapacity == [gold |-> 500, wood |-> 300, stone |-> 300, food |-> 300]
        reset == [state EXCEPT !.capacity = baseCapacity]
        acc == AccumulateRates(ents, [state |-> reset,
                                      production |-> createResourceMap(0),
                                      consumption |-> createResourceMap(0)], 1)
    IN  [acc.state EXCEPT !.production = acc.production,
                          !.consumption = acc.consumption]

\* the returned net change and the state left
simulationTick(ents, state) == tickEconomy(recalculateRates(ents, state))

(***************************************************************************)
(* game/entities/WallEntity.ts and BuildingEntity.ts: health               *)
(***************************************************************************)
\* no entity under damage has been constructed
NoStructure == [kind |-> "none", health |-> 0, maxHealth |-> 0]

\* the constructors set health to maxHealth
Structure(kind, maxHealth) == [kind |-> kind, health |-> maxHealth, maxHealth |-> maxHealth]

\* takeDamage without the floor at 0
takeDamageUnclamped(entity, amount) ==
    LET after == [entity EXCEPT !.health = entity.health - amount]
    IN  [ret |-> after.health <= 0, entity |-> after]

\* the returned flag and the entity left
takeDamage(entity, amount) ==
    LET after == [entity EXCEPT !.health = Max(0, entity.health - amount)]
    IN  [ret |-> after.health <= 0, entity |-> after]

repair(entity, amount) ==
    [entity EXCEPT !.health = Min(entity.maxHealth, entity.health + amount)]

isDestroyed(entity) == entity.health <= 0

EmptyMap == [c \in {} |-> 0]

NoOp == [op |-> "none", arg |-> Null, ret |-> Null]

InitGridVars ==
    /\ nextId = 1
    /\ entitiesById = <<>>
    /\ cellOccupant = EmptyMap
    /\ segments = <<>>
    /\ pathCellSet = {}
    /\ pending = {}
    /\ unserved = {}
    /\ lastOp = NoOp
    /\ steps = 0
    /\ economy = createEconomyState
    /\ moveables = <<>>
    /\ structure = NoStructure

InitPathVars ==
    /\ pfPhase = "input"
    /\ pfBlocked = {}
    /\ pfStart = <<0, 0>>
    /\ pfEnd = Null
    /\ pfPath = <<>>
    /\ pfIters = 0

\* the driver constructs an entity (which draws the next id) and places it
Place(kind, col, row, width, height) ==
    LET entity == Entity(nextId, kind, col, row, width, height)
        r == placeEntity(entitiesById, cellOccupant, entity)
    IN  /\ nextId' = nextId + 1
        /\ entitiesById' = r.ents
        /\ cellOccupant' = r.occ
        /\ lastOp' = [op |-> "place", arg |-> entity, ret |-> r.ok]
        /\ UNCHANGED <<netVars, pfVars, structure, economy, moveables>>

Remove(id) ==
    LET r == removeEntity(entitiesById, cellOccupant, id)
    IN  /\ entitiesById' = r.ents
        /\ cellOccupant' = r.occ
        /\ pending' = IF r.ret = Null THEN pending ELSE pending \cup {id}
        /\ lastOp' = [op |-> "remove", arg |-> id, ret |-> r.ret]
        /\ UNCHANGED <<nextId, segments, pathCellSet, unserved, pfVars, structure, economy, moveables>>

(***************************************************************************)
(* Grid specification: any sequence of placeEntity and removeEntity        *)
(***************************************************************************)
\* the classes of entities/ with the footprints their constructors fix;
\* a BuildingEntity takes its footprint as arguments
Shapes == {<<"wall", 1, 1>>, <<"house", 2, 2>>, <<"building", 2, 1>>}

\* top-left cells: the line of cells just before the grid, its first two lines
\* (where footprints overlap) and its last two lines (where they stick out)
GridCols == {-1, 0, 1, GRID_COLS - 2, GRID_COLS - 1}
GridRows == {-1, 0, 1, GRID_ROWS - 2, GRID_ROWS - 1}

InitGrid == InitGridVars /\ InitPathVars

PlaceAny ==
    /\ nextId <= MaxGridId
    /\ UNCHANGED steps
    /\ \E s \in Shapes, col \in GridCols, row \in GridRows :
         Place(s[1], col, row, s[2], s[3])

\* ids never handed out are removed as well as those of placed entities
RemoveAny == UNCHANGED steps /\ \E id \in 1..nextId : Remove(id)

NextGrid == PlaceAny \/ RemoveAny

SpecGrid == InitGrid /\ [][NextGrid]_vars

(***************************************************************************)
(* game/pathNetwork.ts (incremental version)                               *)
(*                                                                         *)
(* A segment is [fromId, toId, cells] as in the source, with three history *)
(* fields no operation reads: via ("bridge" or "fallback"), fromDoor and   *)
(* toDoor, the door cells of the two endpoint buildings when the segment   *)
(* was created (Null for an endpoint that had none).                       *)
(* lastOp.arg of a regeneratePaths call, which takes no argument, records  *)
(* whether the call before it was a regeneratePaths call too.              *)
(* A network state is [segments, pathCellSet, cleared]; cleared tells      *)
(* whether clearMoveableNavigation ran.  The three updates return nothing; *)
(* lastOp.ret records how many segments the call added and removed.        *)
(***************************************************************************)
MAX_NEIGHBOURS == 1

\* isWall that takes no entity for a wall
isWallNever(entity) == entity.kind = "none"

isWall(entity) == entity.kind = "wall"

manhattanCells(a, b) == Abs(a[1] - b[1]) + Abs(a[2] - b[2])

\* getDoorCell that looks at the grid's edges only, not at the occupants
getDoorCellIgnoringOccupants(occ, entity) ==
    LET midCol == entity.col + (entity.width \div 2)
        midRow == entity.row + (entity.height \div 2)
    IN  IF entity.row + entity.height < GRID_ROWS THEN <<midCol, entity.row + entity.height>>
        ELSE IF entity.col + entity.width < GRID_COLS THEN <<entity.col + entity.width, midRow>>
        ELSE IF entity.row - 1 >= 0 THEN <<midCol, entity.row - 1>>
        ELSE IF entity.col - 1 >= 0 THEN <<entity.col - 1, midRow>>
        ELSE Null

getDoorCell(occ, entity) ==
    LET midCol == entity.col + (entity.width \div 2)
        midRow == entity.row + (entity.height \div 2)
        sRow == entity.row + entity.height
        eCol == entity.col + entity.width
        nRow == entity.row - 1
        wCol == entity.col - 1
    IN  IF sRow < GRID_ROWS /\ getEntityAt(occ, midCol, sRow) = NoId
        THEN <<midCol, sRow>>
        ELSE IF eCol < GRID_COLS /\ getEntityAt(occ, eCol, midRow) = NoId
        THEN <<eCol, midRow>>
        ELSE IF nRow >= 0 /\ getEntityAt(occ, midCol, nRow) = NoId
        THEN <<midCol, nRow>>
        ELSE IF wCol >= 0 /\ getEntityAt(occ, wCol, midRow) = NoId
        THEN <<wCol, midRow>>
        ELSE Null

isCellBlocked(occ, col, row) == getEntityAt(occ, col, row) # NoId

rebuildCellSet(segs) == UNION {{segs[i].cells[j] : j \in 1..Len(segs[i].cells)} : i \in 1..Len(segs)}

segmentExists(segs, idA, idB) ==
    \E i \in 1..Len(segs) :
        \/ (segs[i].fromId = idA /\ segs[i].toId = idB)
        \/ (segs[i].fromId = idB /\ segs[i].toId = idA)

connectionCount(segs, entityId) ==
    Cardinality({i \in 1..Len(segs) : segs[i].fromId = entityId \/ segs[i].toId = entityId})

\* the offsets <<r, dc, dr>> the three nested loops keep, which they visit
\* in lexicographic order
RingOffsets ==
    {t \in (0..NEARBY_RADIUS) \X ((0 - NEARBY_RADIUS)..NEARBY_RADIUS)
                              \X ((0 - NEARBY_RADIUS)..NEARBY_RADIUS) :
        /\ Abs(t[2]) <= t[1] /\ Abs(t[3]) <= t[1]
        /\ (Abs(t[2]) = t[1] \/ Abs(t[3]) = t[1])}

LexLess(a, b) ==
    \/ a[1] < b[1]
    \/ (a[1] = b[1] /\ a[2] < b[2])
    \/ (a[1] = b[1] /\ a[2] = b[2] /\ a[3] < b[3])

\* findNearbyPathCell that takes the first path cell of the whole grid,
\* without the NEARBY_RADIUS limit
findNearbyPathCellUnbounded(occ, pcs, col, row) ==
    LET hits == {c \in pcs :
                    /\ ~(c[1] < 0 \/ c[1] >= GRID_COLS \/ c[2] < 0 \/ c[2] >= GRID_ROWS)
                    /\ ~isCellBlocked(occ, c[1], c[2])}
        Ring(c) == IF Abs(c[1] - col) > Abs(c[2] - row)
                   THEN Abs(c[1] - col) ELSE Abs(c[2] - row)
        Key(c) == <<Ring(c), c[1] - col, c[2] - row>>
    IN  IF hits = {} THEN Null
        ELSE CHOOSE h \in hits : \A o \in hits : o = h \/ LexLess(Key(h), Key(o))

findNearbyPathCell(occ, pcs, col, row) ==
    LET hits == {t \in RingOffsets :
                    LET nc == col + t[2]
                        nr == row + t[3]
                    IN  /\ ~(nc < 0 \/ nc >= GRID_COLS \/ nr < 0 \/ nr >= GRID_ROWS)
                        /\ cellKey(nc, nr) \in pcs
                        /\ ~isCellBlocked(occ, nc, nr)}
    IN  IF hits = {} THEN Null
        ELSE LET t == CHOOSE h \in hits : \A o \in hits : o = h \/ LexLess(h, o)
             IN  <<col + t[2], row + t[3]>>

findSegmentOwner(segs, col, row) ==
    LET owning == {i \in 1..Len(segs) :
                      \E j \in 1..Len(segs[i].cells) : segs[i].cells[j] = cellKey(col, row)}
    IN  IF owning = {} THEN -1
        ELSE segs[CHOOSE i \in owning : \A k \in owning : i <= k].fromId

\* Array.prototype.sort on the candidates, stable, by distance from door
RECURSIVE SortByDistance(_, _)
SortByDistance(others, door) ==
    IF Len(others) <= 1 THEN others
    ELSE LET rest == SortByDistance(SubSeq(others, 1, Len(others) - 1), door)
             x == others[Len(others)]
             before == {i \in 1..Len(rest) :
                          manhattanCells(door, rest[i].door) <= manhattanCells(door, x.door)}
             k == Cardinality(before)
         IN  SubSeq(rest, 1, k) \o <<x>> \o SubSeq(rest, k + 1, Len(rest))

\* lines 213-219: the other non-wall entities that have a door, registry order
RECURSIVE OtherDoors(_, _, _, _)
OtherDoors(ents, occ, entity, i) ==
    IF i > Len(ents) THEN <<>>
    ELSE LET e == ents[i]
             d == getDoorCell(occ, e)
         IN  IF e.id = entity.id \/ isWall(e) \/ d = Null
             THEN OtherDoors(ents, occ, entity, i + 1)
             ELSE <<[entity |-> e, door |-> d]>> \o OtherDoors(ents, occ, entity, i + 1)

DoorOfId(ents, occ, id) ==
    IF getEntityById(ents, id) = Null THEN Null
    ELSE getDoorCell(occ, getEntityById(ents, id))

\* lines 227-247: the loop over the nearest candidates
RECURSIVE ConnectNearest(_, _, _, _, _, _)
ConnectNearest(occ, net, entity, door, nearest, i) ==
    IF i > Len(nearest) THEN net
    ELSE LET target == nearest[i]
             path == findPath(door[1], door[2], target.door[1], target.door[2],
                              GRID_COLS, GRID_ROWS, DOMAIN occ)
         IN  IF segmentExists(net.segments, entity.id, target.entity.id)
             THEN ConnectNearest(occ, net, entity, door, nearest, i + 1)
             ELSE IF Len(path) = 0
             THEN ConnectNearest(occ, net, entity, door, nearest, i + 1)
             ELSE ConnectNearest(occ,
                    [net EXCEPT !.segments = Append(@,
                                    [fromId |-> entity.id, toId |-> target.entity.id,
                                     cells |-> path, via |-> "fallback",
                                     fromDoor |-> door, toDoor |-> target.door]),
                                !.pathCellSet = @ \cup {path[j] : j \in 1..Len(path)}],
                    entity, door, nearest, i + 1)

\* the fallback without its slice(0, MAX_NEIGHBOURS): it tries every candidate
connectToNearestAll(ents, occ, net, entity, door) ==
    LET others == OtherDoors(ents, occ, entity, 1)
        sorted == SortByDistance(others, door)
    IN  IF Len(others) = 0 THEN net
        ELSE [ConnectNearest(occ, net, entity, door, sorted, 1) EXCEPT !.cleared = TRUE]

\* lines 212-249: the nearest-neighbour fallback
connectToNearest(ents, occ, net, entity, door) ==
    LET others == OtherDoors(ents, occ, entity, 1)
        sorted == SortByDistance(others, door)
        nearest == SubSeq(sorted, 1, IF Len(sorted) < MAX_NEIGHBOURS
                                     THEN Len(sorted) ELSE MAX_NEIGHBOURS)
    IN  IF Len(others) = 0 THEN net
        ELSE [ConnectNearest(occ, net, entity, door, nearest, 1) EXCEPT !.cleared = TRUE]

addPathsForEntity(ents, occ, net, entity) ==
    LET door == getDoorCell(occ, entity)
        nearbyCell == findNearbyPathCell(occ, net.pathCellSet, door[1], door[2])
        ownerId == findSegmentOwner(net.segments, nearbyCell[1], nearbyCell[2])
        bridge == findPath(door[1], door[2], nearbyCell[1], nearbyCell[2],
                           GRID_COLS, GRID_ROWS, DOMAIN occ)
    IN  IF isWall(entity) THEN net
        ELSE IF door = Null THEN net
        ELSE IF /\ nearbyCell # Null
                /\ ownerId # -1
                /\ ~segmentExists(net.segments, entity.id, ownerId)
                /\ Len(bridge) > 0
        THEN [segments |-> Append(net.segments,
                             [fromId |-> entity.id, toId |-> ownerId,
                              cells |-> bridge, via |-> "bridge",
                              fromDoor |-> door,
                              toDoor |-> DoorOfId(ents, occ, ownerId)]),
              pathCellSet |-> net.pathCellSet \cup {bridge[j] : j \in 1..Len(bridge)},
              cleared |-> TRUE]
        ELSE connectToNearest(ents, occ, net, entity, door)

\* lines 257-261: the ids joined to entityId by a segment, in Set insertion order
RECURSIVE OrphanIds(_, _, _, _)
OrphanIds(segs, entityId, i, acc) ==
    IF i > Len(segs) THEN acc
    ELSE LET other == IF segs[i].fromId = entityId THEN segs[i].toId
                      ELSE IF segs[i].toId = entityId THEN segs[i].fromId
                      ELSE NoId
         IN  IF other = NoId \/ \E k \in 1..Len(acc) : acc[k] = other
             THEN OrphanIds(segs, entityId, i + 1, acc)
             ELSE OrphanIds(segs, entityId, i + 1, Append(acc, other))

\* lines 273-277: the reconnection loop
RECURSIVE ReconnectOrphans(_, _, _, _, _)
ReconnectOrphans(ents, occ, net, orphanIds, i) ==
    IF i > Len(orphanIds) THEN net
    ELSE LET oid == orphanIds[i]
             orphan == getEntityById(ents, oid)
         IN  IF connectionCount(net.segments, oid) >= MAX_NEIGHBOURS
             THEN ReconnectOrphans(ents, occ, net, orphanIds, i + 1)
             ELSE IF orphan = Null
             THEN ReconnectOrphans(ents, occ, net, orphanIds, i + 1)
             ELSE ReconnectOrphans(ents, occ, addPathsForEntity(ents, occ, net, orphan),
                                   orphanIds, i + 1)

\* removePathsForEntity without its rebuildCellSet call
removePathsForEntityNoRebuild(ents, occ, net, entityId) ==
    LET orphanIds == OrphanIds(net.segments, entityId, 1, <<>>)
        kept == SelectSeq(net.segments,
                          LAMBDA sg : ~(sg.fromId = entityId \/ sg.toId = entityId))
        rebuilt == [segments |-> kept, pathCellSet |-> net.pathCellSet,
                    cleared |-> net.cleared]
    IN  [ReconnectOrphans(ents, occ, rebuilt, orphanIds, 1) EXCEPT !.cleared = TRUE]

\* removePathsForEntity that deletes only the segments leaving entityId
removePathsForEntityFromOnly(ents, occ, net, entityId) ==
    LET orphanIds == OrphanIds(net.segments, entityId, 1, <<>>)
        kept == SelectSeq(net.segments, LAMBDA sg : ~(sg.fromId = entityId))
        rebuilt == [segments |-> kept, pathCellSet |-> rebuildCellSet(kept),
                    cleared |-> net.cleared]
    IN  [ReconnectOrphans(ents, occ, rebuilt, orphanIds, 1) EXCEPT !.cleared = TRUE]

removePathsForEntity(ents, occ, net, entityId) ==
    LET orphanIds == OrphanIds(net.segments, entityId, 1, <<>>)
        kept == SelectSeq(net.segments,
                          LAMBDA sg : ~(sg.fromId = entityId \/ sg.toId = entityId))
        rebuilt == [segments |-> kept, pathCellSet |-> rebuildCellSet(kept),
                    cleared |-> net.cleared]
    IN  [ReconnectOrphans(ents, occ, rebuilt, orphanIds, 1) EXCEPT !.cleared = TRUE]

\* lines 293-295: addPathsForEntity for every entity in registry order
RECURSIVE AddAll(_, _, _, _)
AddAll(ents, occ, net, i) ==
    IF i > Len(ents) THEN net
    ELSE AddAll(ents, occ, addPathsForEntity(ents, occ, net, ents[i]), i + 1)

\* regeneratePaths without the two lines that empty the network first
regeneratePathsKeeping(ents, occ, net) ==
    IF Len(ents) < 2 THEN net
    ELSE AddAll(ents, occ, net, 1)

regeneratePaths(ents, occ, net) ==
    LET cleared == [segments |-> <<>>, pathCellSet |-> {}, cleared |-> net.cleared]
    IN  IF Len(ents) < 2 THEN cleared
        ELSE AddAll(ents, occ, cleared, 1)

getPathCells(occ, pcs) == {c \in pcs : getEntityAt(occ, c[1], c[2]) = NoId}

isPathCell(pcs, col, row) == cellKey(col, row) \in pcs

(***************************************************************************)
(* game/entities/MoveableEntity.ts and the moveable tracking of grid.ts    *)
(***************************************************************************)
\* a moveable entity is [col, row, currentPath, pathIndex, idleTicksLeft];
\* pathIndex counts from 0 as in the source
IDLE_TICKS == 3

DIRECTIONS ==
    <<<<-1, -1>>, <<0, -1>>, <<1, -1>>,
      <<-1, 0>>,             <<1, 0>>,
      <<-1, 1>>,  <<0, 1>>,  <<1, 1>>>>

MoveableEntity(col, row) ==
    [col |-> col, row |-> row, currentPath |-> <<>>, pathIndex |-> 0, idleTicksLeft |-> 0]

clearPath(m) == [m EXCEPT !.currentPath = <<>>, !.pathIndex = 0, !.idleTicksLeft = 0]

clearMoveableNavigation(ms) == [i \in 1..Len(ms) |-> clearPath(ms[i])]

\* findNavigationPath whose callback blocks no cell
findNavigationPathUnconstrained(pcs, fromCol, fromRow, toCol, toRow) ==
    findPath(fromCol, fromRow, toCol, toRow, GRID_COLS, GRID_ROWS, {})

findNavigationPath(pcs, fromCol, fromRow, toCol, toRow) ==
    findPath(fromCol, fromRow, toCol, toRow, GRID_COLS, GRID_ROWS,
             {c \in (0..(GRID_COLS - 1)) \X (0..(GRID_ROWS - 1)) :
                 ~isPathCell(pcs, c[1], c[2]) /\ ~(c[1] = fromCol /\ c[2] = fromRow)})

RECURSIVE DoorsFrom(_, _, _)
DoorsFrom(ents, occ, i) ==
    IF i > Len(ents) THEN <<>>
    ELSE (IF isWall(ents[i]) THEN <<>>
          ELSE IF getDoorCell(occ, ents[i]) = Null THEN <<>>
          ELSE <<getDoorCell(occ, ents[i])>>) \o DoorsFrom(ents, occ, i + 1)

getBuildingDoors(ents, occ) == DoorsFrom(ents, occ, 1)

\* dir is the index Math.random() draws in DIRECTIONS
randomStep(m, dir) ==
    LET nc == m.col + DIRECTIONS[dir][1]
        nr == m.row + DIRECTIONS[dir][2]
    IN  IF nc >= 0 /\ nc < GRID_COLS /\ nr >= 0 /\ nr < GRID_ROWS
        THEN [m EXCEPT !.col = nc, !.row = nr]
        ELSE m

\* lines 56-87 of step: pick a destination; target is the index Math.random()
\* draws in doors
PickDestination(m, pcs, doors, target, dir) ==
    LET navPath == findNavigationPath(pcs, m.col, m.row, doors[target][1], doors[target][2])
        moved == IF Len(navPath) > 1
                 THEN [m EXCEPT !.currentPath = Tail(navPath), !.pathIndex = 1,
                                !.col = navPath[2][1], !.row = navPath[2][2]]
                 ELSE IF ~isPathCell(pcs, m.col, m.row) THEN randomStep(m, dir)
                 ELSE m
    IN  IF moved.pathIndex >= Len(moved.currentPath)
        THEN [moved EXCEPT !.idleTicksLeft = IDLE_TICKS]
        ELSE moved

step(m, ents, occ, pcs, target, dir) ==
    IF m.idleTicksLeft > 0 THEN [m EXCEPT !.idleTicksLeft = @ - 1]
    ELSE IF m.pathIndex < Len(m.currentPath)
    THEN [m EXCEPT !.col = m.currentPath[m.pathIndex + 1][1],
                   !.row = m.currentPath[m.pathIndex + 1][2],
                   !.pathIndex = @ + 1]
    ELSE IF Len(getBuildingDoors(ents, occ)) = 0 THEN randomStep(m, dir)
    ELSE PickDestination(m, pcs, getBuildingDoors(ents, occ), target, dir)

\* tickMoveableEntities: every moveable entity steps once, each with its own
\* two random draws
Tick ==
    /\ \E draw \in [1..Len(moveables) ->
                      (1..Max(1, Len(getBuildingDoors(entitiesById, cellOccupant))))
                         \X (1..Len(DIRECTIONS))] :
         moveables' = [i \in 1..Len(moveables) |->
                          step(moveables[i], entitiesById, cellOccupant, pathCellSet,
                               draw[i][1], draw[i][2])]
    /\ lastOp' = [op |-> "tick", arg |-> Null, ret |-> Null]
    /\ UNCHANGED <<gridVars, netVars, pfVars, structure, economy>>

CurrentNet == [segments |-> segments, pathCellSet |-> pathCellSet, cleared |-> FALSE]

AddPaths(id) ==
    /\ getEntityById(entitiesById, id) # Null
    /\ LET r == addPathsForEntity(entitiesById, cellOccupant, CurrentNet,
                                  getEntityById(entitiesById, id))
       IN  /\ segments' = r.segments
           /\ pathCellSet' = r.pathCellSet
           /\ moveables' = IF r.cleared THEN clearMoveableNavigation(moveables)
                                         ELSE moveables
    /\ lastOp' = [op |-> "addPaths", arg |-> id,
                  ret |-> [added |-> Len(segments') - Len(segments), removed |-> 0]]
    /\ unserved' = unserved \ {id}
    /\ UNCHANGED <<gridVars, pending, pfVars, structure, economy>>

RemovePaths(id) ==
    /\ LET r == removePathsForEntity(entitiesById, cellOccupant, CurrentNet, id)
       IN  /\ segments' = r.segments
           /\ pathCellSet' = r.pathCellSet
           /\ moveables' = IF r.cleared THEN clearMoveableNavigation(moveables)
                                         ELSE moveables
    /\ pending' = pending \ {id}
    /\ lastOp' = [op |-> "removePaths", arg |-> id,
                  ret |-> [added |-> Len(segments') - Len(segments) + connectionCount(segments, id),
                           removed |-> connectionCount(segments, id)]]
    /\ UNCHANGED <<gridVars, unserved, pfVars, structure, economy>>

Regenerate ==
    /\ LET r == regeneratePaths(entitiesById, cellOccupant, CurrentNet)
       IN  /\ segments' = r.segments
           /\ pathCellSet' = r.pathCellSet
           /\ moveables' = IF r.cleared THEN clearMoveableNavigation(moveables)
                                         ELSE moveables
    /\ lastOp' = [op |-> "regenerate", arg |-> [repeated |-> lastOp.op = "regenerate"],
                  ret |-> [added |-> Len(segments'), removed |-> Len(segments)]]
    /\ UNCHANGED <<gridVars, pending, unserved, pfVars, structure, economy>>

(***************************************************************************)
(* Path-network specification: placements, removals and the three network  *)
(* updates in any order                                                    *)
(***************************************************************************)
\* the entities the driver offers: 2x2 houses in three corners of the grid
\* and a 1x1 wall on the straight road between the first two
NetPlacements ==
    {<<"house", 0, 0>>, <<"house", GRID_COLS - 2, 0>>,
     <<"house", 0, GRID_ROWS - 2>>, <<"wall", 2, 2>>}

ShapeOf(kind) == IF kind = "wall" THEN <<1, 1>> ELSE <<2, 2>>

Init == InitGridVars /\ InitPathVars

Step == steps < MaxSteps /\ steps' = steps + 1

PlaceNet ==
    /\ Step
    /\ nextId <= MaxNetId
    /\ \E p \in NetPlacements :
         Place(p[1], p[2], p[3], ShapeOf(p[1])[1], ShapeOf(p[1])[2])

RemoveNet == Step /\ \E id \in 1..(nextId - 1) : Remove(id)

AddPathsNet == Step /\ \E id \in 1..(nextId - 1) : AddPaths(id)

RemovePathsNet == Step /\ \E id \in 1..(nextId - 1) : RemovePaths(id)

RegenerateNet == Step /\ Regenerate

Next == PlaceNet \/ RemoveNet \/ AddPathsNet \/ RemovePathsNet \/ RegenerateNet

Spec == Init /\ [][Next]_vars

(***************************************************************************)
(* Town specification: a town is built entity by entity and buildings are  *)
(* demolished; every placement is followed by addPathsForEntity for the    *)
(* placed entity and every removal by removePathsForEntity for its id,     *)
(* before the next placement or removal                                    *)
(***************************************************************************)
\* the building plan, in the order of construction: three houses, two walls
\* beside the third house's door, and a fourth house
TownPlan ==
    <<<<"house", 0, 3>>, <<"house", 3, 3>>, <<"house", 0, 0>>,
      <<"wall", 0, 2>>, <<"wall", 2, 2>>, <<"house", 3, 0>>>>

\* a successful placement or a removal still awaits its network update
UpdateDue == (lastOp.op = "place" /\ lastOp.ret = TRUE) \/ pending # {}

PlaceTown ==
    /\ ~UpdateDue
    /\ nextId <= Len(TownPlan)
    /\ LET p == TownPlan[nextId]
       IN  Place(p[1], p[2], p[3], ShapeOf(p[1])[1], ShapeOf(p[1])[2])
    /\ UNCHANGED steps

ConnectTown ==
    /\ lastOp.op = "place" /\ lastOp.ret = TRUE
    /\ AddPaths(lastOp.arg.id)
    /\ UNCHANGED steps

DemolishTown ==
    /\ ~UpdateDue
    /\ \E i \in 1..Len(entitiesById) : Remove(entitiesById[i].id)
    /\ UNCHANGED steps

DisconnectTown ==
    /\ \E id \in pending : RemovePaths(id)
    /\ UNCHANGED steps

NextTown == PlaceTown \/ ConnectTown \/ DemolishTown \/ DisconnectTown

SpecTown == Init /\ [][NextTown]_vars

(***************************************************************************)
(* Navigation specification: one moveable entity is spawned at load; then  *)
(* placements, removals, the three network updates and moveable ticks in   *)
(* any order                                                               *)
(***************************************************************************)
\* the cells the moveable entity is spawned on: on the road between the two
\* upper houses, beside it, and in a corner away from it
NavSpawns == {<<2, 2>>, <<1, 2>>, <<2, 3>>, <<GRID_COLS - 1, GRID_ROWS - 1>>}

InitNav ==
    /\ nextId = 1
    /\ entitiesById = <<>>
    /\ cellOccupant = EmptyMap
    /\ segments = <<>>
    /\ pathCellSet = {}
    /\ pending = {}
    /\ unserved = {}
    /\ lastOp = NoOp
    /\ steps = 0
    /\ economy = createEconomyState
    /\ structure = NoStructure
    /\ moveables \in {<<MoveableEntity(c[1], c[2])>> : c \in NavSpawns}
    /\ InitPathVars

NavStep == steps < MaxNavSteps /\ steps' = steps + 1

PlaceNav ==
    /\ NavStep
    /\ nextId <= MaxNavId
    /\ \E p \in NetPlacements :
         Place(p[1], p[2], p[3], ShapeOf(p[1])[1], ShapeOf(p[1])[2])

RemoveNav == NavStep /\ \E id \in 1..(nextId - 1) : Remove(id)

AddPathsNav == NavStep /\ \E id \in 1..(nextId - 1) : AddPaths(id)

RemovePathsNav == NavStep /\ \E id \in 1..(nextId - 1) : RemovePaths(id)

RegenerateNav == NavStep /\ Regenerate

TickNav == NavStep /\ Tick

NextNav ==
    PlaceNav \/ RemoveNav \/ AddPathsNav \/ RemovePathsNav \/ RegenerateNav \/ TickNav

SpecNav == InitNav /\ [][NextNav]_vars

(***************************************************************************)
(* Street specification: buildings of one cell are placed along the top    *)
(* line of the grid and demolished; as in the town specification every     *)
(* placement is followed by addPathsForEntity and every removal by         *)
(* removePathsForEntity before the next placement or removal.  Only the    *)
(* top line is ever occupied, so every door is the cell below its building *)
(* and every search between doors and path cells finds a path              *)
(***************************************************************************)
PlaceStreet ==
    /\ ~UpdateDue
    /\ nextId <= MaxStreetId
    /\ \E col \in 0..(GRID_COLS - 1) : Place("building", col, 0, 1, 1)
    /\ UNCHANGED steps

ConnectStreet ==
    /\ lastOp.op = "place" /\ lastOp.ret = TRUE
    /\ AddPaths(lastOp.arg.id)
    /\ UNCHANGED steps

DemolishStreet ==
    /\ ~UpdateDue
    /\ \E i \in 1..Len(entitiesById) : Remove(entitiesById[i].id)
    /\ UNCHANGED steps

DisconnectStreet ==
    /\ \E id \in pending : RemovePaths(id)
    /\ UNCHANGED steps

NextStreet == PlaceStreet \/ ConnectStreet \/ DemolishStreet \/ DisconnectStreet

SpecStreet == Init /\ [][NextStreet]_vars

(***************************************************************************)
(* Doorway specification: two houses and walls on and beside the road      *)
(* between their doors are placed and demolished, every placement followed *)
(* by addPathsForEntity and every removal by removePathsForEntity before   *)
(* the next placement or removal                                           *)
(***************************************************************************)
\* the house in the top-left corner has its south door on (1, 2)
DoorwayPlacements ==
    {<<"house", 0, 0>>, <<"house", GRID_COLS - 2, 0>>, <<"wall", 1, 2>>, <<"wall", 2, 2>>}

PlaceDoorway ==
    /\ ~UpdateDue
    /\ nextId <= MaxDoorwayId
    /\ \E p \in DoorwayPlacements :
         Place(p[1], p[2], p[3], ShapeOf(p[1])[1], ShapeOf(p[1])[2])
    /\ UNCHANGED steps

ConnectDoorway ==
    /\ lastOp.op = "place" /\ lastOp.ret = TRUE
    /\ AddPaths(lastOp.arg.id)
    /\ UNCHANGED steps

DemolishDoorway ==
    /\ ~UpdateDue
    /\ \E i \in 1..Len(entitiesById) : Remove(entitiesById[i].id)
    /\ UNCHANGED steps

DisconnectDoorway ==
    /\ \E id \in pending : RemovePaths(id)
    /\ UNCHANGED steps

NextDoorway == PlaceDoorway \/ ConnectDoorway \/ DemolishDoorway \/ DisconnectDoorway

SpecDoorway == Init /\ [][NextDoorway]_vars

(***************************************************************************)
(* Route specification: one moveable entity is spawned at load; then       *)
(* placements, removals, network updates of single entities and moveable   *)
(* ticks in any order.  The routes findNavigationPath returns are read off *)
(* its states                                                              *)
(***************************************************************************)
RouteStep == steps < MaxRouteSteps /\ steps' = steps + 1

PlaceRoute ==
    /\ RouteStep
    /\ nextId <= MaxRouteId
    /\ \E p \in NetPlacements :
         Place(p[1], p[2], p[3], ShapeOf(p[1])[1], ShapeOf(p[1])[2])

RemoveRoute == RouteStep /\ \E id \in 1..(nextId - 1) : Remove(id)

AddPathsRoute == RouteStep /\ \E id \in 1..(nextId - 1) : AddPaths(id)

RemovePathsRoute == RouteStep /\ \E id \in 1..(nextId - 1) : RemovePaths(id)

TickRoute == RouteStep /\ Tick

NextRoute ==
    PlaceRoute \/ RemoveRoute \/ AddPathsRoute \/ RemovePathsRoute \/ TickRoute

SpecRoute == InitNav /\ [][NextRoute]_vars

(***************************************************************************)
(* Driver specification (main.ts): moveable entities are spawned at load;  *)
(* then clicks in a placing mode and frames of the loop, which tick the    *)
(* moveable entities and the economy when their intervals have elapsed     *)
(***************************************************************************)
\* the placing modes clicked in and the cells clicked on
DriverModes == {"placeholder", "house", "wall", "farm", "town_hall"}

DriverCells == {<<0, 0>>, <<2, 0>>, <<3, 3>>, <<GRID_COLS - 1, GRID_ROWS - 1>>}

DriverStep == steps < MaxDriverSteps /\ steps' = steps + 1

\* the entity the click handler constructs in a placing mode
DriverEntity(mode, col, row) ==
    IF mode \in {"placeholder", "house"} THEN Entity(nextId, mode, col, row, 2, 2)
    ELSE IF mode = "wall" THEN Entity(nextId, mode, col, row, 1, 1)
    ELSE Entity(nextId, mode, col, row, BuildingSize[mode], BuildingSize[mode])

\* the canvas click handler
DriverClick ==
    /\ DriverStep
    /\ \E mode \in DriverModes, c \in DriverCells :
         IF mode # "placeholder" /\ ~canAfford(economy, BuildingCost[mode])
         THEN /\ lastOp' = [op |-> "click", arg |-> mode, ret |-> FALSE]
              /\ UNCHANGED <<gridVars, unserved, economy>>
         ELSE LET entity == DriverEntity(mode, c[1], c[2])
                  r == placeEntity(entitiesById, cellOccupant, entity)
              IN  /\ nextId' = nextId + 1
                  /\ entitiesById' = r.ents
                  /\ cellOccupant' = r.occ
                  /\ unserved' = IF r.ok THEN unserved \cup {entity.id} ELSE unserved
                  /\ economy' = IF r.ok /\ mode # "placeholder"
                                THEN spendResources(economy, BuildingCost[mode]).state
                                ELSE economy
                  /\ lastOp' = [op |-> "place", arg |-> entity, ret |-> r.ok]
    /\ UNCHANGED <<segments, pathCellSet, pending, pfVars, structure, moveables>>

\* a frame in which the move interval has elapsed
DriverMoveTick == DriverStep /\ Tick

\* a frame in which the economy interval has elapsed
DriverEconomyTick ==
    /\ DriverStep
    /\ LET r == simulationTick(entitiesById, economy)
       IN  /\ economy' = r.state
           /\ lastOp' = [op |-> "simulationTick", arg |-> Null, ret |-> r.net]
    /\ UNCHANGED <<gridVars, netVars, pfVars, structure, moveables>>

NextDriver == DriverClick \/ DriverMoveTick \/ DriverEconomyTick

SpecDriver == InitNav /\ [][NextDriver]_vars

(***************************************************************************)
(* Health specification: a WallEntity or a BuildingEntity is constructed   *)
(* with some maxHealth and then takes damage and is repaired in any order  *)
(***************************************************************************)
\* the maxHealth values of the catalogue, scaled down
HealthMaxima == 1..MaxHealth

\* the amounts of damage and repair: none, less than, all of and more than
\* the largest maxHealth
HealthAmounts == 0..(MaxHealth + 1)

InitHealth ==
    /\ nextId = 1
    /\ entitiesById = <<>>
    /\ cellOccupant = EmptyMap
    /\ segments = <<>>
    /\ pathCellSet = {}
    /\ pending = {}
    /\ unserved = {}
    /\ lastOp = NoOp
    /\ steps = 0
    /\ economy = createEconomyState
    /\ moveables = <<>>
    /\ structure \in {Structure(kind, mh) : kind \in {"wall", "building"}, mh \in HealthMaxima}
    /\ InitPathVars

HealthUnchanged == UNCHANGED <<steps, gridVars, netVars, pfVars, economy, moveables>>

TakeDamage ==
    /\ \E amount \in HealthAmounts :
         LET r == takeDamage(structure, amount)
         IN  /\ structure' = r.entity
             /\ lastOp' = [op |-> "takeDamage", arg |-> amount, ret |-> r.ret]
    /\ HealthUnchanged

Repair ==
    /\ \E amount \in HealthAmounts :
         /\ structure' = repair(structure, amount)
         /\ lastOp' = [op |-> "repair", arg |-> amount, ret |-> Null]
    /\ HealthUnchanged

NextHealth == TakeDamage \/ Repair

SpecHealth == InitHealth /\ [][NextHealth]_vars

(***************************************************************************)
(* Door specification: a building, a house and walls are placed in and     *)
(* around two corners of the grid and removed, in any order                *)
(***************************************************************************)
\* a 2x1 building in the corner and the walls south and east of it; a house
\* in the opposite corner and the wall north of it
DoorPlacements ==
    {<<"building", 0, 0, 2, 1>>, <<"wall", 1, 1, 1, 1>>, <<"wall", 2, 0, 1, 1>>,
     <<"house", GRID_COLS - 2, GRID_ROWS - 2, 2, 2>>,
     <<"wall", GRID_COLS - 1, GRID_ROWS - 3, 1, 1>>}

PlaceDoor ==
    /\ nextId <= MaxDoorId
    /\ \E p \in DoorPlacements : Place(p[1], p[2], p[3], p[4], p[5])
    /\ UNCHANGED steps

RemoveDoor == UNCHANGED steps /\ \E id \in 1..(nextId - 1) : Remove(id)

NextDoor == PlaceDoor \/ RemoveDoor

SpecDoor == Init /\ [][NextDoor]_vars

(***************************************************************************)
(* Pathfinder specification: findPath applied to every bounded input       *)
(***************************************************************************)
PathGrid == (0..(PathCols - 1)) \X (0..(PathRows - 1))

\* one cell beyond each edge of the grid
OutsideCells == {<<-1, 0>>, <<PathCols, 0>>, <<0, -1>>, <<0, PathRows>>}

\* start and end range over the grid and a cell outside each edge
PathInputs == PathGrid \cup OutsideCells

BlockedSets == {b \in SUBSET PathGrid : Cardinality(b) <= MaxBlocked}

InitPath ==
    /\ InitGridVars
    /\ pfPhase = "input"
    /\ pfBlocked \in BlockedSets
    /\ pfStart \in PathInputs
    /\ pfEnd = Null
    /\ pfPath = <<>>
    /\ pfIters = 0

FindPathCall ==
    /\ pfPhase = "input"
    /\ \E e \in PathInputs :
         LET r == findPathRun(pfStart[1], pfStart[2], e[1], e[2],
                              PathCols, PathRows, pfBlocked)
         IN  /\ pfEnd' = e
             /\ pfPath' = r.path
             /\ pfIters' = r.iters
    /\ pfPhase' = "done"
    /\ UNCHANGED <<pfBlocked, pfStart, gridVars, netVars, lastOp, steps, economy, moveables,
                 structure>>

NextPath == FindPathCall

SpecPath == InitPath /\ [][NextPath]_vars

(***************************************************************************)
(* Economy specification: the economy operations in any order, on a grid   *)
(* where a storehouse may be built and demolished                          *)
(***************************************************************************)
\* the amounts handed to the operations: multiples of 250, a negative one
\* among them
Amounts == {250 * k : k \in (-1)..MaxUnits}

\* the Partial<ResourceMap> arguments: one amount, of gold
PartialMaps == {("gold" :> a) : a \in Amounts}

\* the cost arguments: an amount of gold and nothing or 250 of food
CostMaps ==
    {[createResourceMap(0) EXCEPT !["gold"] = g, !["food"] = f] :
        g \in Amounts, f \in {0, 250}}

EconStep == steps < MaxEconSteps /\ steps' = steps + 1

EconUnchanged == UNCHANGED <<gridVars, netVars, pfVars, structure, moveables>>

SpendResources ==
    /\ EconStep
    /\ \E cost \in CostMaps :
         LET r == spendResources(economy, cost)
         IN  /\ economy' = r.state
             /\ lastOp' = [op |-> "spendResources", arg |-> cost, ret |-> r.ret]
    /\ EconUnchanged

AddResources ==
    /\ EconStep
    /\ \E amounts \in PartialMaps :
         /\ economy' = addResources(economy, amounts)
         /\ lastOp' = [op |-> "addResources", arg |-> amounts, ret |-> Null]
    /\ EconUnchanged

AddCapacity ==
    /\ EconStep
    /\ \E amounts \in PartialMaps :
         /\ economy' = addCapacity(economy, amounts)
         /\ lastOp' = [op |-> "addCapacity", arg |-> amounts, ret |-> Null]
    /\ EconUnchanged

RemoveCapacity ==
    /\ EconStep
    /\ \E amounts \in PartialMaps :
         /\ economy' = removeCapacity(economy, amounts)
         /\ lastOp' = [op |-> "removeCapacity", arg |-> amounts, ret |-> Null]
    /\ EconUnchanged

SetProductionRate ==
    /\ EconStep
    /\ \E rate \in Amounts :
         /\ economy' = setProductionRate(economy, "gold", rate)
         /\ lastOp' = [op |-> "setProductionRate", arg |-> rate, ret |-> Null]
    /\ EconUnchanged

SetConsumptionRate ==
    /\ EconStep
    /\ \E rate \in Amounts :
         /\ economy' = setConsumptionRate(economy, "gold", rate)
         /\ lastOp' = [op |-> "setConsumptionRate", arg |-> rate, ret |-> Null]
    /\ EconUnchanged

TickEconomy ==
    /\ EconStep
    /\ LET r == tickEconomy(economy)
       IN  /\ economy' = r.state
           /\ lastOp' = [op |-> "tickEconomy", arg |-> Null, ret |-> r.net]
    /\ EconUnchanged

RecalculateRates ==
    /\ EconStep
    /\ economy' = recalculateRates(entitiesById, economy)
    /\ lastOp' = [op |-> "recalculateRates", arg |-> Null, ret |-> Null]
    /\ EconUnchanged

SimulationTick ==
    /\ EconStep
    /\ LET r == simulationTick(entitiesById, economy)
       IN  /\ economy' = r.state
           /\ lastOp' = [op |-> "simulationTick", arg |-> Null, ret |-> r.net]
    /\ EconUnchanged

\* the driver builds one storehouse, a BuildingEntity of type storage
PlaceStorage ==
    /\ EconStep
    /\ nextId = 1
    /\ Place("storage", 0, 0, 4, 4)

RemoveStorage == EconStep /\ nextId > 1 /\ Remove(1)

InitEcon == InitGridVars /\ InitPathVars

NextEcon ==
    \/ SpendResources \/ AddResources \/ AddCapacity \/ RemoveCapacity
    \/ SetProductionRate \/ SetConsumptionRate
    \/ TickEconomy \/ RecalculateRates \/ SimulationTick
    \/ PlaceStorage \/ RemoveStorage

SpecEcon == InitEcon /\ [][NextEcon]_vars

\* the economy driven by addResources and tickEconomy alone, under any rates
NextAddTick == AddResources \/ TickEconomy \/ SetProductionRate \/ SetConsumptionRate

SpecAddTick == InitEcon /\ [][NextAddTick]_vars

(***************************************************************************)
(* Rates specification: entities of every class are placed and removed,    *)
(* the capacity and a rate are overwritten from outside, and the rates are *)
(* recalculated, alone or as part of a simulation tick                     *)
(***************************************************************************)
\* one entity of each class, side by side: a HouseEntity, a WallEntity, a
\* PlaceholderEntity and two BuildingEntity objects with 2x2 footprints
RatesPlacements ==
    {<<"house", 0, 0, 2, 2>>, <<"wall", 2, 0, 1, 1>>, <<"placeholder", 3, 0, 2, 2>>,
     <<"storage", 0, 2, 2, 2>>, <<"farm", 2, 2, 2, 2>>}

PlaceRates ==
    /\ EconStep
    /\ nextId <= MaxRatesId
    /\ \E p \in RatesPlacements : Place(p[1], p[2], p[3], p[4], p[5])

RemoveRates == EconStep /\ \E id \in 1..(nextId - 1) : Remove(id)

NextRates ==
    \/ PlaceRates \/ RemoveRates \/ AddCapacity \/ SetProductionRate
    \/ RecalculateRates \/ SimulationTick

SpecRates == InitEcon /\ [][NextRates]_vars

(***************************************************************************)
(* Reference notions for the pathfinder claims                             *)
(***************************************************************************)
Adj4(c) == {<<c[1], c[2] - 1>>, <<c[1] + 1, c[2]>>, <<c[1], c[2] + 1>>, <<c[1] - 1, c[2]>>}

IsAdjacent(a, b) == Abs(a[1] - b[1]) + Abs(a[2] - b[2]) = 1

SeqCells(s) == {s[i] : i \in 1..Len(s)}

\* breadth-first distance from the frontier to target over the free cells,
\* -1 when the target cannot be reached
RECURSIVE BfsDist(_, _, _, _, _)
BfsDist(frontier, visited, target, free, d) ==
    IF target \in frontier THEN d
    ELSE IF frontier = {} THEN -1
    ELSE LET next == ((UNION {Adj4(c) : c \in frontier}) \cap free) \ visited
         IN  BfsDist(next, visited \cup next, target, free, d + 1)

ShortestDist(start, end, free) == BfsDist({start}, {start}, end, free, 0)

PathFree == PathGrid \ pfBlocked

\* C4: from an in-bounds unblocked start to a reachable in-bounds unblocked
\* end, findPath returns a path of (breadth-first shortest distance + 1) cells
C4_Optimal ==
    (/\ pfPhase = "done"
     /\ pfStart \in PathFree
     /\ pfEnd \in PathFree
     /\ ShortestDist(pfStart, pfEnd, PathFree) # -1)
    => Len(pfPath) = ShortestDist(pfStart, pfEnd, PathFree) + 1

\* a search that had to go around blocked cells: the shortest path is longer
\* than the Manhattan distance
C4_Witness ==
    /\ pfPhase = "done"
    /\ pfStart \in PathFree
    /\ pfEnd \in PathFree
    /\ ShortestDist(pfStart, pfEnd, PathFree) >
         manhattan(pfStart[1], pfStart[2], pfEnd[1], pfEnd[2])
    /\ Len(pfPath) = ShortestDist(pfStart, pfEnd, PathFree) + 1

\* C5: a non-empty path begins at the start, ends at the end, steps between
\* 4-adjacent cells, repeats no cell, and after its first cell holds only
\* unblocked cells of the grid
C5_WellFormed ==
    (pfPhase = "done" /\ Len(pfPath) > 0)
    => /\ pfPath[1] = pfStart
       /\ pfPath[Len(pfPath)] = pfEnd
       /\ \A i \in 1..(Len(pfPath) - 1) : IsAdjacent(pfPath[i], pfPath[i + 1])
       /\ \A i, j \in 1..Len(pfPath) : pfPath[i] = pfPath[j] => i = j
       /\ \A i \in 2..Len(pfPath) : pfPath[i] \in PathFree

\* a path of at least four cells returned on a grid with blocked cells
C5_Witness ==
    /\ pfPhase = "done"
    /\ Len(pfPath) >= 4
    /\ pfBlocked # {}
    /\ pfPath[1] = pfStart
    /\ pfPath[Len(pfPath)] = pfEnd

\* no path exists: an endpoint outside the grid, a blocked end, or an end
\* that cannot be reached from the start over unblocked cells
NoPathExists ==
    \/ pfStart \notin PathGrid
    \/ pfEnd \notin PathGrid
    \/ pfEnd \in pfBlocked
    \/ ShortestDist(pfStart, pfEnd, PathFree \cup {pfStart}) = -1

\* C6: findPath terminates (its loop closes one cell per iteration) and
\* returns the empty sequence whenever no path exists (start # end)
C6_EmptyWhenNoPath ==
    pfPhase = "done"
    => /\ pfIters <= PathCols * PathRows + 1
       /\ (pfStart # pfEnd /\ NoPathExists) => pfPath = <<>>

(***************************************************************************)
(* Claims about the grid                                                   *)
(***************************************************************************)
Grid == (0..(GRID_COLS - 1)) \X (0..(GRID_ROWS - 1))

Registered == {entitiesById[i] : i \in 1..Len(entitiesById)}

RegisteredIds == {e.id : e \in Registered}

\* C1: placeEntity returns false and leaves registry and occupancy unchanged
\* when a footprint cell is outside the grid or occupied; otherwise it
\* returns true, registers the entity and occupies every footprint cell
C1_PlaceAtomic ==
    [][(lastOp'.op = "place" /\ nextId' # nextId) =>
        LET entity == lastOp'.arg
        IN  IF \E c \in FootprintCells(entity) :
                   c \notin Grid \/ c \in DOMAIN cellOccupant
            THEN /\ lastOp'.ret = FALSE
                 /\ entitiesById' = entitiesById
                 /\ cellOccupant' = cellOccupant
            ELSE /\ lastOp'.ret = TRUE
                 /\ entitiesById' = Append(entitiesById, entity)
                 /\ DOMAIN cellOccupant' = DOMAIN cellOccupant \cup FootprintCells(entity)
                 /\ \A c \in FootprintCells(entity) : cellOccupant'[c] = entity.id
                 /\ \A c \in DOMAIN cellOccupant : cellOccupant'[c] = cellOccupant[c]]_vars

\* the scenario of the specification: a 2x2 at (3,3) is refused, inside the
\* grid, because a 2x2 placed at (2,2) holds cell (3,3)
C1_Witness ==
    /\ lastOp.op = "place"
    /\ lastOp.ret = FALSE
    /\ lastOp.arg.col = 1 /\ lastOp.arg.row = 1
    /\ lastOp.arg.width = 2 /\ lastOp.arg.height = 2
    /\ FootprintCells(lastOp.arg) \subseteq Grid
    /\ \E e \in Registered : e.col = 0 /\ e.row = 0 /\ e.width = 2 /\ e.height = 2

\* C2: the occupancy map is exactly the union of the registered entities'
\* footprints, each footprint cell maps to its entity, and the footprints of
\* distinct registered entities are disjoint
C2_Occupancy ==
    /\ DOMAIN cellOccupant = UNION {FootprintCells(e) : e \in Registered}
    /\ \A e \in Registered : \A c \in FootprintCells(e) : cellOccupant[c] = e.id
    /\ \A i, j \in 1..Len(entitiesById) :
         i # j => /\ entitiesById[i].id # entitiesById[j].id
                  /\ FootprintCells(entitiesById[i]) \cap FootprintCells(entitiesById[j]) = {}

\* two entities side by side, the second placed after an overlapping attempt
\* could have been made
C2_Witness ==
    /\ Len(entitiesById) = 2
    /\ \E c \in FootprintCells(entitiesById[1]), d \in FootprintCells(entitiesById[2]) :
         IsAdjacent(c, d)

\* C3: removeEntity of a registered id deletes the id and exactly that
\* entity's footprint cells and returns the entity; of an unknown id it
\* returns the not-found value and changes nothing
C3_Remove ==
    [][lastOp'.op = "remove" =>
        LET id == lastOp'.arg
        IN  IF id \in RegisteredIds
            THEN LET entity == CHOOSE e \in Registered : e.id = id
                 IN  /\ lastOp'.ret = entity
                     /\ entitiesById' = SelectSeq(entitiesById, LAMBDA e : e.id # id)
                     /\ DOMAIN cellOccupant' = DOMAIN cellOccupant \ FootprintCells(entity)
                     /\ \A c \in DOMAIN cellOccupant' : cellOccupant'[c] = cellOccupant[c]
            ELSE /\ lastOp'.ret = Null
                 /\ entitiesById' = entitiesById
                 /\ cellOccupant' = cellOccupant]_vars

\* a 2x2 entity was removed while another entity stays on the grid
C3_Witness ==
    /\ lastOp.op = "remove"
    /\ lastOp.ret # Null
    /\ lastOp.ret.width = 2 /\ lastOp.ret.height = 2
    /\ Len(entitiesById) = 1
    /\ DOMAIN cellOccupant = FootprintCells(entitiesById[1])

(***************************************************************************)
(* Claims about the path network                                           *)
(***************************************************************************)
Segs == {segments[i] : i \in 1..Len(segments)}

Last(s) == s[Len(s)]

Contiguous(cells) == \A j \in 1..(Len(cells) - 1) : IsAdjacent(cells[j], cells[j + 1])

Chebyshev(a, b) ==
    IF Abs(a[1] - b[1]) > Abs(a[2] - b[2]) THEN Abs(a[1] - b[1]) ELSE Abs(a[2] - b[2])

\* C7: after every completed network update the path-cell set is the union
\* of the cells of the live segments
C7_CellSetIsUnion ==
    pathCellSet = UNION {SeqCells(sg.cells) : sg \in Segs}

\* removePathsForEntity of a removed building deleted segments and left
\* others alive
C7_Witness ==
    /\ lastOp.op = "removePaths"
    /\ lastOp.arg \notin RegisteredIds
    /\ lastOp.ret.removed >= 1
    /\ segments # <<>>
    /\ pathCellSet = UNION {SeqCells(sg.cells) : sg \in Segs}

\* C8 as claimed: every live segment is contiguous and runs from the door
\* cell of one endpoint building to the door cell of the other, the doors
\* being those of the moment of creation, bridge segments included
C8_DoorToDoor ==
    \A sg \in Segs :
        /\ Contiguous(sg.cells)
        /\ \/ (sg.cells[1] = sg.fromDoor /\ Last(sg.cells) = sg.toDoor)
           \/ (sg.cells[1] = sg.toDoor /\ Last(sg.cells) = sg.fromDoor)

\* C8 amended: every live segment is contiguous and starts at the door cell
\* its fromId building had at creation; a fallback segment ends at the door
\* cell its toId building had at creation, a bridge segment ends at a cell
\* within NEARBY_RADIUS of its own first cell
C8_SegmentShape ==
    \A sg \in Segs :
        /\ Contiguous(sg.cells)
        /\ sg.cells[1] = sg.fromDoor
        /\ sg.via = "fallback" => Last(sg.cells) = sg.toDoor
        /\ sg.via = "bridge" => Chebyshev(sg.cells[1], Last(sg.cells)) <= NEARBY_RADIUS

\* a fallback segment and a bridge segment that stops short of the other
\* building's door are alive together
C8_Witness ==
    /\ \E sg \in Segs : sg.via = "fallback" /\ Len(sg.cells) >= 2
    /\ \E sg \in Segs : /\ sg.via = "bridge"
                        /\ Last(sg.cells) # sg.toDoor
                        /\ sg.cells[1] = sg.fromDoor

NonWalls == {e \in Registered : ~isWall(e)}

FreeCells == Grid \ DOMAIN cellOccupant

\* e is the later placed of exactly two non-wall buildings, both have doors
\* that reach each other over free cells, and no path cell exists
C9_TwoBuildings(id) ==
    /\ Cardinality(NonWalls) = 2
    /\ \E i, j \in 1..Len(entitiesById) :
         /\ i < j
         /\ entitiesById[j].id = id
         /\ {entitiesById[i], entitiesById[j]} = NonWalls
         /\ getDoorCell(cellOccupant, entitiesById[i]) # Null
         /\ getDoorCell(cellOccupant, entitiesById[j]) # Null
         /\ ShortestDist(getDoorCell(cellOccupant, entitiesById[j]),
                         getDoorCell(cellOccupant, entitiesById[i]), FreeCells) # -1
    /\ pathCellSet = {}

C10_NoDeadEndpoint ==
    /\ (lastOp.op = "removePaths" /\ lastOp.arg \notin RegisteredIds)
         => \A sg \in Segs : sg.fromId # lastOp.arg /\ sg.toId # lastOp.arg
    /\ pending = {}
         => \A sg \in Segs : sg.fromId \in RegisteredIds /\ sg.toId \in RegisteredIds

\* removePathsForEntity of a removed building deleted its segment and its
\* orphan reconnection created a new one in the same call
C10_Witness ==
    /\ lastOp.op = "removePaths"
    /\ lastOp.arg \notin RegisteredIds
    /\ lastOp.ret.removed >= 1
    /\ lastOp.ret.added >= 1
    /\ pending = {}
    /\ segments # <<>>

\* the ids of the walls on the grid, by the kind they were constructed with
WallIds == {e.id : e \in {w \in Registered : w.kind = "wall"}}

\* C13: no live segment has a placed wall as fromId or toId, and
\* addPathsForEntity applied to a wall changes neither the segment list nor
\* the path-cell set
C13_WallsStayOut ==
    [][/\ \A sg \in Segs' : sg.fromId \notin WallIds' /\ sg.toId \notin WallIds'
       /\ (lastOp'.op = "addPaths" /\ steps' # steps /\ lastOp'.arg \in WallIds)
            => (segments' = segments /\ pathCellSet' = pathCellSet)]_vars

\* addPathsForEntity has just been called on a placed wall while a segment
\* between two buildings is live
C13_Witness ==
    /\ lastOp.op = "addPaths"
    /\ lastOp.arg \in WallIds
    /\ segments # <<>>
    /\ Cardinality(NonWalls) >= 2

NetworkOps == {"addPaths", "removePaths", "regenerate"}

\* the segments the last network update created: it appends them to the list
CreatedSegments(segs, op) ==
    {segs[i] : i \in (Len(segs) - op.ret.added + 1)..Len(segs)}

\* C14: every cell getPathCells() returns is unoccupied and lies on a live
\* segment, and a segment a network update creates holds no cell that is
\* occupied at that moment
C14_OffBuildings ==
    [][/\ \A c \in getPathCells(cellOccupant', pathCellSet') :
            /\ c \notin DOMAIN cellOccupant'
            /\ \E sg \in Segs' : c \in SeqCells(sg.cells)
       /\ (lastOp'.op \in NetworkOps /\ steps' # steps)
            => \A sg \in CreatedSegments(segments', lastOp') :
                   SeqCells(sg.cells) \cap DOMAIN cellOccupant = {}]_vars

\* a segment was just created that makes a detour around a placed wall
C14_Witness ==
    /\ lastOp.op \in NetworkOps
    /\ lastOp.ret.added >= 1
    /\ WallIds # {}
    /\ \E sg \in CreatedSegments(segments, lastOp) :
         Len(sg.cells) > manhattanCells(sg.cells[1], Last(sg.cells)) + 1
    /\ getPathCells(cellOccupant, pathCellSet) # {}

\* C15: a regeneratePaths call that directly follows a regeneratePaths call
\* leaves the segment list and the path-cell set as the first call left them
C15_RegenerateTwice ==
    [][(lastOp.op = "regenerate" /\ lastOp'.op = "regenerate" /\ steps' # steps)
         => (segments' = segments /\ pathCellSet' = pathCellSet)]_vars

\* the second of two regeneratePaths calls in a row has rebuilt a network of
\* at least two segments
C15_Witness ==
    /\ lastOp.op = "regenerate"
    /\ lastOp.arg.repeated
    /\ Len(segments) >= 2
    /\ pathCellSet # {}

(***************************************************************************)
(* Claims about the economy                                                *)
(***************************************************************************)
Clamped(state) ==
    \A type \in RESOURCE_TYPES :
        0 <= state.resources[type] /\ state.resources[type] <= state.capacity[type]

\* C16: under addResources and tickEconomy alone, with any amounts and any
\* rates, every resource amount stays within 0 and its capacity
C16_AddTickClamped == Clamped(economy)

\* C17: every resource amount is within 0 and its capacity after every
\* economy mutation, recalculateRates after a demolition included
C17_AlwaysClamped ==
    lastOp.op \in {"spendResources", "addResources", "addCapacity", "removeCapacity",
                   "tickEconomy", "recalculateRates", "simulationTick"}
        => Clamped(economy)

\* C18: spendResources returns true exactly when every amount is at least
\* the cost component, and then deducts every component; otherwise it
\* returns false and leaves amounts, capacity and rates as they were
C18_SpendAtomic ==
    [][lastOp'.op = "spendResources" =>
        LET cost == lastOp'.arg
            affordable == \A type \in RESOURCE_TYPES : economy.resources[type] >= cost[type]
        IN  /\ lastOp'.ret = affordable
            /\ affordable =>
                 /\ \A type \in RESOURCE_TYPES :
                      economy'.resources[type] = economy.resources[type] - cost[type]
                 /\ economy'.capacity = economy.capacity
                 /\ economy'.production = economy.production
                 /\ economy'.consumption = economy.consumption
            /\ ~affordable => economy' = economy]_vars

\* a cost of 500 gold was just paid out of exactly 500 gold
C18_Witness ==
    /\ lastOp.op = "spendResources"
    /\ lastOp.ret = TRUE
    /\ lastOp.arg["gold"] = 500
    /\ economy.resources["gold"] = 0

Clamp(x, lo, hi) == IF x < lo THEN lo ELSE IF x > hi THEN hi ELSE x

\* C19: where no capacity is negative, tickEconomy sets each amount to
\* amount + production - consumption clamped into [0, capacity], returns for
\* each type the amount after minus the amount before, and leaves capacity,
\* production and consumption as they were
C19_TickRealized ==
    [][(lastOp'.op = "tickEconomy"
          /\ \A type \in RESOURCE_TYPES : economy.capacity[type] >= 0) =>
        /\ \A type \in RESOURCE_TYPES :
             /\ economy'.resources[type] =
                   Clamp(economy.resources[type] + economy.production[type]
                           - economy.consumption[type], 0, economy.capacity[type])
             /\ lastOp'.ret[type] = economy'.resources[type] - economy.resources[type]
        /\ economy'.capacity = economy.capacity
        /\ economy'.production = economy.production
        /\ economy'.consumption = economy.consumption]_vars

\* a tick has just filled the gold store and reported less than the net rate
C19_Witness ==
    /\ lastOp.op = "tickEconomy"
    /\ economy.resources["gold"] = economy.capacity["gold"]
    /\ lastOp.ret["gold"] > 0
    /\ lastOp.ret["gold"] < economy.production["gold"] - economy.consumption["gold"]

\* C20: removeCapacity sets each capacity to max(0, capacity - amount) and
\* each amount to the smaller of itself and the new capacity; addCapacity
\* adds the amounts to the capacities and leaves the resource amounts alone
C20_CapacityChange ==
    [][/\ lastOp'.op = "removeCapacity" =>
            /\ \A type \in RESOURCE_TYPES :
                 /\ economy'.capacity[type] =
                       Max(0, economy.capacity[type] - OrZero(lastOp'.arg, type))
                 /\ economy'.resources[type] =
                       Min(economy.resources[type], economy'.capacity[type])
                 /\ economy'.resources[type] <= economy.resources[type]
            /\ economy'.production = economy.production
            /\ economy'.consumption = economy.consumption
       /\ lastOp'.op = "addCapacity" =>
            /\ \A type \in RESOURCE_TYPES :
                 economy'.capacity[type] =
                    economy.capacity[type] + OrZero(lastOp'.arg, type)
            /\ economy'.resources = economy.resources
            /\ economy'.production = economy.production
            /\ economy'.consumption = economy.consumption]_vars

\* a removeCapacity larger than the capacity has left capacity 0 and taken
\* the stored gold down with it
C20_Witness ==
    /\ lastOp.op = "removeCapacity"
    /\ lastOp.arg["gold"] = 500
    /\ economy.capacity["gold"] = 0
    /\ economy.resources["gold"] = 0

(***************************************************************************)
(* Claims about reconnection after a demolition                            *)
(***************************************************************************)
\* the ids a live segment joins to id
NeighbourIds(segs, id) ==
    {segs[i].toId : i \in {k \in 1..Len(segs) : segs[k].fromId = id}}
      \cup {segs[i].fromId : i \in {k \in 1..Len(segs) : segs[k].toId = id}}

\* e is placed, has a door, and over unoccupied cells its door reaches the
\* door of another placed non-wall building
CanReachABuilding(e) ==
    /\ getDoorCell(cellOccupant, e) # Null
    /\ \E o \in NonWalls :
         /\ o.id # e.id
         /\ getDoorCell(cellOccupant, o) # Null
         /\ ShortestDist(getDoorCell(cellOccupant, e),
                         getDoorCell(cellOccupant, o), FreeCells) # -1

\* C11: after removeEntity(id) and removePathsForEntity(id), every former
\* neighbour of id that is still placed and whose door reaches the door of
\* another placed non-wall building is an endpoint of a live segment
C11_OrphansReconnected ==
    [][(lastOp'.op = "removePaths" /\ lastOp'.arg \notin RegisteredIds) =>
        \A e \in Registered :
            (e.id \in NeighbourIds(segments, lastOp'.arg) /\ CanReachABuilding(e))
                => NeighbourIds(segments', e.id) # {}]_vars

(***************************************************************************)
(* Claims about the moveable entities' navigation state                    *)
(***************************************************************************)
NavigationCleared(m) ==
    m.currentPath = <<>> /\ m.pathIndex = 0 /\ m.idleTicksLeft = 0

\* C12: when a call of addPathsForEntity, removePathsForEntity or
\* regeneratePaths changes the segment list or the path-cell set, every
\* moveable entity has an empty route, cursor 0 and idle countdown 0 when the
\* call returns
C12_NavigationCleared ==
    [][(lastOp'.op \in NetworkOps /\ (segments' # segments \/ pathCellSet' # pathCellSet))
         => \A i \in 1..Len(moveables') : NavigationCleared(moveables'[i])]_vars

(***************************************************************************)
(* Claims about the recalculation of the rates                             *)
(***************************************************************************)
RatesOps == {"recalculateRates", "simulationTick"}

\* the sum over the registered entities of one field of the catalogue entry
\* that typeOf gives each entity (none when typeOf gives no catalogue entry)
RECURSIVE CatalogueSum(_, _, _, _, _)
CatalogueSum(ents, typeOf, field, type, i) ==
    IF i > Len(ents) THEN 0
    ELSE (IF typeOf[ents[i].kind] \in BuildingTypes
          THEN OrZero(BUILDING_DEFS[typeOf[ents[i].kind]][field], type)
          ELSE 0) + CatalogueSum(ents, typeOf, field, type, i + 1)

Kinds == BuildingTypes \cup {"placeholder"}

\* the building type the code reads off an entity of each class
ResolvedType == [k \in Kinds |-> entityBuildingType([kind |-> k])]

\* the building type of each class: a WallEntity is a wall
OwnType == [k \in Kinds |-> IF k = "placeholder" THEN Undefined ELSE k]

RatesFollow(state, ents, typeOf) ==
    \A type \in RESOURCE_TYPES :
        /\ state.capacity[type]
             = DEFAULT_CAPACITY[type] + CatalogueSum(ents, typeOf, "storageBonus", type, 1)
        /\ state.production[type] = CatalogueSum(ents, typeOf, "production", type, 1)
        /\ state.consumption[type] = CatalogueSum(ents, typeOf, "consumption", type, 1)

C22_OwnDefinition ==
    lastOp.op \in RatesOps => RatesFollow(economy, entitiesById, OwnType)

(***************************************************************************)
(* Claims about the driver                                                 *)
(***************************************************************************)
\* C23: when the driver ticks the moveable entities, every entity it placed
\* successfully has had its addPathsForEntity
C23_PlacementUpdatesNetwork ==
    [][lastOp'.op = "tick" => unserved = {}]_vars

DoorCandidates(e) ==
    <<<<e.col + (e.width \div 2), e.row + e.height>>,
      <<e.col + e.width, e.row + (e.height \div 2)>>,
      <<e.col + (e.width \div 2), e.row - 1>>,
      <<e.col - 1, e.row + (e.height \div 2)>>>>

\* the candidates that are inside the grid and unoccupied
UsableCandidates(e) ==
    {i \in 1..4 : DoorCandidates(e)[i] \in Grid \ DOMAIN cellOccupant}

\* C25: the door cell of a placed entity is the first of the candidates
\* south, east, north, west that is inside the grid and unoccupied, none when
\* there is no such candidate; a door cell is inside the grid, unoccupied and
\* 4-adjacent to a cell of the entity's footprint
C25_DoorCell ==
    \A e \in Registered :
        LET door == getDoorCell(cellOccupant, e)
        IN  /\ UsableCandidates(e) = {} => door = Null
            /\ UsableCandidates(e) # {} =>
                 /\ door = DoorCandidates(e)[CHOOSE i \in UsableCandidates(e) :
                                                \A j \in UsableCandidates(e) : i <= j]
                 /\ door \in Grid
                 /\ door \notin DOMAIN cellOccupant
                 /\ \E f \in FootprintCells(e) : IsAdjacent(door, f)

\* an enclosed entity without a door beside an entity whose door is its west
\* candidate
C25_Witness ==
    \E e, f \in Registered :
        /\ getDoorCell(cellOccupant, e) = Null
        /\ getDoorCell(cellOccupant, f) = DoorCandidates(f)[4]

(***************************************************************************)
(* Claims about the set of segments                                        *)
(***************************************************************************)
NoDuplicateSegment(segs) ==
    /\ \A i, j \in 1..Len(segs) :
         i # j => {segs[i].fromId, segs[i].toId} # {segs[j].fromId, segs[j].toId}
    /\ \A i \in 1..Len(segs) : segs[i].fromId # segs[i].toId

\* C26: in every state reached by addPathsForEntity, removePathsForEntity and
\* regeneratePaths calls no two live segments join the same unordered pair of
\* buildings and no live segment joins a building to itself
C26_NoDuplicateSegment == NoDuplicateSegment(segments)

(***************************************************************************)
(* Claims about navigation routes                                          *)
(***************************************************************************)
\* the cells the moveable entities stand on: the origins step asks routes from
NavOrigins == {<<moveables[i].col, moveables[i].row>> : i \in 1..Len(moveables)}

Route(from, to) == findNavigationPath(pathCellSet, from[1], from[2], to[1], to[2])

\* C27: every cell of a route returned by findNavigationPath other than the
\* origin is a path cell, and the route is empty when the destination is not
\* a path cell and differs from the origin
C27_RouteOnPathCells ==
    \A from \in NavOrigins, to \in Grid :
        /\ \A k \in 1..Len(Route(from, to)) :
             Route(from, to)[k] # from => Route(from, to)[k] \in pathCellSet
        /\ (to \notin pathCellSet /\ to # from) => Route(from, to) = <<>>

\* a moveable entity off the network with a route of three cells or more onto
\* it, and a destination beside the network to which there is no route
C27_Witness ==
    \E from \in NavOrigins, to, off \in Grid :
        /\ from \notin pathCellSet
        /\ Len(Route(from, to)) >= 3
        /\ off \notin pathCellSet /\ off # from
        /\ \E c \in pathCellSet : IsAdjacent(off, c)
        /\ Route(from, off) = <<>>

(***************************************************************************)
(* Claims about the idle wait of moveable entities                         *)
(***************************************************************************)
\* step took its follow branch from m (lines 48-54)
Followed(m) == m.idleTicksLeft = 0 /\ m.pathIndex < Len(m.currentPath)

\* step planned a route from m and took its first cell, giving n (lines 69-77)
Planned(m, n) ==
    /\ m.idleTicksLeft = 0
    /\ m.pathIndex >= Len(m.currentPath)
    /\ Len(getBuildingDoors(entitiesById, cellOccupant)) > 0
    /\ n.pathIndex = 1
    /\ Len(n.currentPath) >= 1
    /\ <<n.col, n.row>> = n.currentPath[1]
    /\ <<m.col, m.row>> # <<n.col, n.row>>

\* the step from m to n moved the entity onto the last cell of its route
ReachedLastCell(m, n) ==
    /\ Followed(m) \/ Planned(m, n)
    /\ n.pathIndex = Len(n.currentPath)

\* C28: a moveable entity that a step moves onto the last cell of its route
\* has the full idle countdown of IDLE_TICKS, so that its next IDLE_TICKS
\* steps only count down, whatever the length of the route
C28_IdleAtRouteEnd ==
    [][lastOp'.op = "tick" =>
         \A i \in 1..Len(moveables) :
             ReachedLastCell(moveables[i], moveables'[i]) =>
                 moveables'[i].idleTicksLeft = IDLE_TICKS]_vars

(***************************************************************************)
(* Claims about the connectedness of the network                           *)
(***************************************************************************)
\* the placed non-wall buildings that have a door
DoorIds == {e.id : e \in {o \in NonWalls : getDoorCell(cellOccupant, o) # Null}}

\* the ids of DoorIds reached from the ids of seen over live segments
RECURSIVE ReachedIds(_)
ReachedIds(seen) ==
    LET more == (UNION {NeighbourIds(segments, id) : id \in seen}) \cap DoorIds
    IN  IF more \subseteq seen THEN seen ELSE ReachedIds(seen \cup more)

NetworkConnected == \A id \in DoorIds : ReachedIds({id}) = DoorIds

\* every door and every path cell is unoccupied and reaches every other over
\* unoccupied cells: a search between any two of them finds a path
SearchesSucceed ==
    LET ends == pathCellSet \cup
                  {getDoorCell(cellOccupant, e) :
                     e \in {o \in NonWalls : getDoorCell(cellOccupant, o) # Null}}
    IN  /\ ends \subseteq FreeCells
        /\ \A a, b \in ends : ShortestDist(a, b, FreeCells) # -1

\* C29: when no network update is due and every search finds a path, the
\* graph of the placed non-wall buildings with a door and the live segments
\* is connected
C29_NetworkConnected == (~UpdateDue /\ SearchesSucceed) => NetworkConnected

(***************************************************************************)
(* Claims about routes between connected buildings                         *)
(***************************************************************************)
\* C30: when no network update is due, between the current doors of any two
\* placed buildings joined by a chain of live segments findNavigationPath
\* returns a non-empty route
C30_RouteBetweenConnected ==
    ~UpdateDue =>
        \A a, b \in NonWalls :
            (/\ a.id # b.id
             /\ a.id \in DoorIds
             /\ b.id \in ReachedIds({a.id}))
                => Route(getDoorCell(cellOccupant, a), getDoorCell(cellOccupant, b)) # <<>>

====
